---------------------------- MODULE Spec2Model ----------------------------
(***************************************************************************)
(* Affine matrices of agb (agb/src/display/affine.rs).                     *)
(*                                                                         *)
(* AffineMatrix holds six Num<i32, 8> fields; AffineMatrixBackground and   *)
(* AffineMatrixObject hold Num<i16, 8> linear parts.  A Num is modelled by  *)
(* its raw integer.  The i32/i16 widths are kept: every arithmetic step    *)
(* below is computed without leaving the signed 32-bit range.              *)
(***************************************************************************)
EXTENDS Integers, Sequences, FiniteSets, TLC

VARIABLES
    overflow_checks,  \* build profile: TRUE when integer overflow panics
    op,               \* the operation that ran last
    args,             \* its inputs
    res,              \* its outputs
    swi               \* calls made to the external bg_affine_matrix routine

vars == <<overflow_checks, op, args, res, swi>>

-----------------------------------------------------------------------------
(* Integer widths                                                          *)

\* fractional bits of AffineMatrixElement = Num<i32, 8>
FRAC == 8

\* raw value of 1 in Num<_, 8>
One == 2 ^ FRAC

I32Max == (2 ^ 30 - 1) + 2 ^ 30
I32Min == -I32Max - 1
I16Max == 2 ^ 15 - 1
I16Min == -(2 ^ 15)
U16Max == 2 ^ 16 - 1

\* self.0 + rhs.0 on i32, two's complement result
WrappingAdd(a, b) ==
    IF a >= 0 /\ b >= 0 /\ a > I32Max - b THEN (a + I32Min) + (b + I32Min)
    ELSE IF a < 0 /\ b < 0 /\ a < I32Min - b THEN (a - I32Min) + (b - I32Min)
    ELSE a + b

\* whether self.0 + rhs.0 leaves the i32 range
AddOverflows(a, b) ==
    \/ a >= 0 /\ b >= 0 /\ a > I32Max - b
    \/ a < 0 /\ b < 0 /\ a < I32Min - b

\* -self.0 on i32, two's complement result
WrappingNeg(a) == IF a = I32Min THEN I32Min ELSE -a

NegOverflows(a) == a = I32Min

\* byte i of a as i64: the sign-extended two's complement form of an i32
ByteOf(a, i) ==
    IF i >= 4 THEN (IF a < 0 THEN 255 ELSE 0)
    ELSE (a \div (256 ^ i)) % 256

\* column sum k of the schoolbook product of the two operands' bytes
Column(a, b, k) ==
    LET RECURSIVE Sum(_)
        Sum(i) == IF i > k THEN 0
                  ELSE ByteOf(a, i) * ByteOf(b, k - i) + Sum(i + 1)
    IN Sum(0)

\* carry out of column k
RECURSIVE Carry(_, _, _)
Carry(a, b, k) ==
    IF k < 0 THEN 0
    ELSE (Column(a, b, k) + Carry(a, b, k - 1)) \div 256

\* byte k of (a as i64) * (b as i64)
ProductByte(a, b, k) == (Column(a, b, k) + Carry(a, b, k - 1)) % 256

\* Num<i32, 8> * Num<i32, 8>: (((a as i64) * (b as i64)) >> 8) as i32
UpcastMultiply(a, b) ==
    IF a >= I16Min /\ a <= I16Max /\ b >= I16Min /\ b <= I16Max
    THEN (a * b) \div One
    ELSE LET top == ProductByte(a, b, 4)
         IN ProductByte(a, b, 1)
            + 256 * ProductByte(a, b, 2)
            + 65536 * ProductByte(a, b, 3)
            + 16777216 * (IF top >= 128 THEN top - 256 ELSE top)

\* whether the cast to i32 drops bits: (a as i64 * b as i64) >> 8 is outside
\* the i32 range
UpcastMultiplyTruncates(a, b) ==
    IF a >= I16Min /\ a <= I16Max /\ b >= I16Min /\ b <= I16Max
    THEN FALSE
    ELSE LET sign == IF ProductByte(a, b, 4) >= 128 THEN 255 ELSE 0
         IN \E k \in 5..7 : ProductByte(a, b, k) # sign


-----------------------------------------------------------------------------
(* agb_fixnum::Num operations used by affine.rs                            *)

\* Num::change_base from N to M fractional bits: n << (M - N) or n >> (N - M)
ChangeBase(raw, n, m) ==
    IF n < m THEN raw * 2 ^ (m - n) ELSE raw \div 2 ^ (n - m)

\* Num::try_change_base into an integer type holding lo..hi: None when the
\* shifted raw value does not convert
TryChangeBase(raw, n, m, lo, hi) ==
    LET num == ChangeBase(raw, n, m)
    IN IF num >= lo /\ num <= hi THEN <<num>> ELSE <<>>

\* Num::rem_euclid(1.into()) on Num<i32, N>
RemEuclidOne(raw, n) == raw % (2 ^ n)

\* Num::floor: self.0 >> N
Floor(raw, n) == raw \div 2 ^ n

Abs(raw) == IF raw < 0 THEN -raw ELSE raw

\* Num<i32, 8>::cos for an angle in turns, 0 <= x < 1
cos(angle) ==
    LET quarter == (One * One) \div (4 * One)
        half    == (One * One) \div (2 * One)
        x1 == angle - (quarter + Floor(angle + quarter, FRAC) * One)
        x2 == UpcastMultiply(x1, UpcastMultiply(Abs(x1) - half, 16 * One))
        x3 == x2 + UpcastMultiply(UpcastMultiply(x2, Abs(x2) - One),
                                  (9 \div 40) * One)
    IN x3

\* Num<i32, 8>::sin: (self - one / four).cos()
sin(angle) == cos(angle - (One * One) \div (4 * One))

-----------------------------------------------------------------------------
(* Values                                                                  *)

\* the outcome of an integer overflow under overflow checks, or of unwrap()
\* on None
Panic == [panicked |-> TRUE]

Vec(x, y) == [x |-> x, y |-> y]

AffineMatrix(a, b, c, d, x, y) ==
    [ty |-> "AffineMatrix", a |-> a, b |-> b, c |-> c, d |-> d, x |-> x, y |-> y]

AffineMatrixBackground(a, b, c, d, x, y) ==
    [ty |-> "AffineMatrixBackground",
     a |-> a, b |-> b, c |-> c, d |-> d, x |-> x, y |-> y]

AffineMatrixObject(a, b, c, d) ==
    [ty |-> "AffineMatrixObject", a |-> a, b |-> b, c |-> c, d |-> d]

OverflowError == [ty |-> "OverflowError"]

Ok(v) == [tag |-> "Ok", val |-> v]

Err(e) == [tag |-> "Err", err |-> e]

-----------------------------------------------------------------------------
(* impl AffineMatrix                                                       *)

identity == AffineMatrix(One, 0, 0, One, 0, 0)

\* from_rotation with a fault seeded: a holds the sine
from_rotation_sine_diagonal(angle, n) ==
    LET a8  == ChangeBase(RemEuclidOne(angle, n), n, FRAC)
        cs  == ChangeBase(cos(a8), FRAC, FRAC)
        sn  == ChangeBase(sin(a8), FRAC, FRAC)
    IN AffineMatrix(sn, WrappingNeg(sn), sn, cs, 0, 0)

from_rotation(angle, n) ==
    LET a8  == ChangeBase(RemEuclidOne(angle, n), n, FRAC)
        cs  == ChangeBase(cos(a8), FRAC, FRAC)
        sn  == ChangeBase(sin(a8), FRAC, FRAC)
    IN AffineMatrix(cs, WrappingNeg(sn), sn, cs, 0, 0)

\* from_translation with a fault seeded: the position is stored without negation
from_translation_not_negated(pos) ==
    AffineMatrix(One, 0, 0, One, pos.x, pos.y)

from_translation(pos) ==
    IF overflow_checks /\ (NegOverflows(pos.x) \/ NegOverflows(pos.y))
    THEN Panic
    ELSE AffineMatrix(One, 0, 0, One, WrappingNeg(pos.x), WrappingNeg(pos.y))

position(self) ==
    IF self = Panic THEN Panic
    ELSE IF overflow_checks /\ (NegOverflows(self.x) \/ NegOverflows(self.y))
    THEN Panic
    ELSE Vec(WrappingNeg(self.x), WrappingNeg(self.y))

\* from_scale with a fault seeded: d is taken from scale.x
from_scale_uniform(scale) == AffineMatrix(scale.x, 0, 0, scale.x, 0, 0)

from_scale(scale) == AffineMatrix(scale.x, 0, 0, scale.y, 0, 0)

\* self.a.try_change_base().ok_or(OverflowError(()))? for each of a, b, c, d
try_to_background(self) ==
    LET a == TryChangeBase(self.a, FRAC, FRAC, I16Min, I16Max)
        b == TryChangeBase(self.b, FRAC, FRAC, I16Min, I16Max)
        c == TryChangeBase(self.c, FRAC, FRAC, I16Min, I16Max)
        d == TryChangeBase(self.d, FRAC, FRAC, I16Min, I16Max)
    IN IF a = <<>> THEN Err(OverflowError)
       ELSE IF b = <<>> THEN Err(OverflowError)
       ELSE IF c = <<>> THEN Err(OverflowError)
       ELSE IF d = <<>> THEN Err(OverflowError)
       ELSE Ok(AffineMatrixBackground(a[1], b[1], c[1], d[1], self.x, self.y))

\* raw as i16: the low 16 bits, read as a signed integer
AsI16(raw) ==
    LET low == raw % 2 ^ 16
    IN IF low > I16Max THEN low - 2 ^ 16 ELSE low

\* to_background_wrapping with a fault seeded: saturates instead of truncating
to_background_saturating(self) ==
    LET Clamp(v) == IF v > I16Max THEN I16Max ELSE IF v < I16Min THEN I16Min ELSE v
    IN AffineMatrixBackground(Clamp(self.a), Clamp(self.b), Clamp(self.c),
                              Clamp(self.d), self.x, self.y)

to_background_wrapping(self) ==
    AffineMatrixBackground(AsI16(self.a), AsI16(self.b), AsI16(self.c),
                           AsI16(self.d), self.x, self.y)

\* try_to_object with a fault seeded: d is truncated instead of checked
try_to_object_unchecked_d(self) ==
    LET a == TryChangeBase(self.a, FRAC, FRAC, I16Min, I16Max)
        b == TryChangeBase(self.b, FRAC, FRAC, I16Min, I16Max)
        c == TryChangeBase(self.c, FRAC, FRAC, I16Min, I16Max)
    IN IF a = <<>> THEN Err(OverflowError)
       ELSE IF b = <<>> THEN Err(OverflowError)
       ELSE IF c = <<>> THEN Err(OverflowError)
       ELSE Ok(AffineMatrixObject(a[1], b[1], c[1], AsI16(self.d)))

try_to_object(self) ==
    LET a == TryChangeBase(self.a, FRAC, FRAC, I16Min, I16Max)
        b == TryChangeBase(self.b, FRAC, FRAC, I16Min, I16Max)
        c == TryChangeBase(self.c, FRAC, FRAC, I16Min, I16Max)
        d == TryChangeBase(self.d, FRAC, FRAC, I16Min, I16Max)
    IN IF a = <<>> THEN Err(OverflowError)
       ELSE IF b = <<>> THEN Err(OverflowError)
       ELSE IF c = <<>> THEN Err(OverflowError)
       ELSE IF d = <<>> THEN Err(OverflowError)
       ELSE Ok(AffineMatrixObject(a[1], b[1], c[1], d[1]))

to_object_wrapping(self) ==
    AffineMatrixObject(AsI16(self.a), AsI16(self.b), AsI16(self.c),
                       AsI16(self.d))

-----------------------------------------------------------------------------
(* impl AffineMatrixBackground / AffineMatrixObject                        *)

\* background_to_affine_matrix with a fault seeded: the translation is dropped
background_to_affine_matrix_no_offset(self) ==
    AffineMatrix(ChangeBase(self.a, FRAC, FRAC), ChangeBase(self.b, FRAC, FRAC),
                 ChangeBase(self.c, FRAC, FRAC), ChangeBase(self.d, FRAC, FRAC),
                 0, 0)

background_to_affine_matrix(self) ==
    AffineMatrix(ChangeBase(self.a, FRAC, FRAC), ChangeBase(self.b, FRAC, FRAC),
                 ChangeBase(self.c, FRAC, FRAC), ChangeBase(self.d, FRAC, FRAC),
                 self.x, self.y)

object_to_affine_matrix(self) ==
    AffineMatrix(ChangeBase(self.a, FRAC, FRAC), ChangeBase(self.b, FRAC, FRAC),
                 ChangeBase(self.c, FRAC, FRAC), ChangeBase(self.d, FRAC, FRAC),
                 0, 0)

\* crate::syscall::bg_affine_matrix: the external routine, kept symbolic
bg_affine_matrix(bg_center, pos, scale, rotation) ==
    [ty |-> "AffineMatrixBackground", routine |-> "bg_affine_matrix",
     bg_center |-> bg_center, position |-> pos, scale |-> scale,
     rotation |-> rotation]

\* the arguments of the call, evaluated left to right; <<>> is unwrap() on None
BridgeArguments(transform_origin, scale, rotation, pos) ==
    LET px == TryChangeBase(pos.x, FRAC, FRAC, I16Min, I16Max)
        py == TryChangeBase(pos.y, FRAC, FRAC, I16Min, I16Max)
        sx == TryChangeBase(scale.x, FRAC, FRAC, I16Min, I16Max)
        sy == TryChangeBase(scale.y, FRAC, FRAC, I16Min, I16Max)
        r  == TryChangeBase(RemEuclidOne(rotation, 16), 16, FRAC, 0, U16Max)
    IN IF px = <<>> \/ py = <<>> THEN <<>>
       ELSE IF sx = <<>> \/ sy = <<>> THEN <<>>
       ELSE IF r = <<>> THEN <<>>
       ELSE << <<transform_origin,
                 Vec(Floor(px[1], FRAC), Floor(py[1], FRAC)),
                 Vec(sx[1], sy[1]),
                 r[1]>> >>

\* from_scale_rotation_position with a fault seeded: the scale is truncated, not
\* unwrapped
from_scale_rotation_position_wrapping(transform_origin, scale, rotation, pos) ==
    LET px == TryChangeBase(pos.x, FRAC, FRAC, I16Min, I16Max)
        py == TryChangeBase(pos.y, FRAC, FRAC, I16Min, I16Max)
    IN IF px = <<>> \/ py = <<>> THEN Panic
       ELSE bg_affine_matrix(transform_origin,
                             Vec(Floor(px[1], FRAC), Floor(py[1], FRAC)),
                             Vec(AsI16(scale.x), AsI16(scale.y)),
                             ChangeBase(RemEuclidOne(rotation, 16), 16, FRAC))

from_scale_rotation_position(transform_origin, scale, rotation, pos) ==
    LET call == BridgeArguments(transform_origin, scale, rotation, pos)
    IN IF call = <<>> THEN Panic
       ELSE bg_affine_matrix(call[1][1], call[1][2], call[1][3], call[1][4])

-----------------------------------------------------------------------------
(* impl Mul for AffineMatrix                                               *)

\* a * b + c * d
Dot(a, b, c, d) == WrappingAdd(UpcastMultiply(a, b), UpcastMultiply(c, d))

DotOverflows(a, b, c, d) == AddOverflows(UpcastMultiply(a, b), UpcastMultiply(c, d))

\* a * b + c * d + e
DotPlus(a, b, c, d, e) == WrappingAdd(Dot(a, b, c, d), e)

DotPlusOverflows(a, b, c, d, e) ==
    DotOverflows(a, b, c, d) \/ AddOverflows(Dot(a, b, c, d), e)

MulOverflows(self, rhs) ==
    \/ DotOverflows(self.a, rhs.a, self.b, rhs.c)
    \/ DotOverflows(self.a, rhs.b, self.b, rhs.d)
    \/ DotOverflows(self.c, rhs.a, self.d, rhs.c)
    \/ DotOverflows(self.c, rhs.b, self.d, rhs.d)
    \/ DotPlusOverflows(self.a, rhs.x, self.b, rhs.y, self.x)
    \/ DotPlusOverflows(self.c, rhs.x, self.d, rhs.y, self.y)

\* mul with a fault seeded: b is computed with rhs.c in place of rhs.d
mul_wrong_column(self, rhs) ==
    IF self = Panic \/ rhs = Panic THEN Panic
    ELSE IF overflow_checks /\ MulOverflows(self, rhs) THEN Panic
    ELSE AffineMatrix(Dot(self.a, rhs.a, self.b, rhs.c),
                      Dot(self.a, rhs.b, self.b, rhs.c),
                      Dot(self.c, rhs.a, self.d, rhs.c),
                      Dot(self.c, rhs.b, self.d, rhs.d),
                      DotPlus(self.a, rhs.x, self.b, rhs.y, self.x),
                      DotPlus(self.c, rhs.x, self.d, rhs.y, self.y))

\* mul with a fault seeded: the offset added is rhs's instead of self's
mul_offset_from_rhs(self, rhs) ==
    IF self = Panic \/ rhs = Panic THEN Panic
    ELSE IF overflow_checks /\ MulOverflows(self, rhs) THEN Panic
    ELSE AffineMatrix(Dot(self.a, rhs.a, self.b, rhs.c),
                      Dot(self.a, rhs.b, self.b, rhs.d),
                      Dot(self.c, rhs.a, self.d, rhs.c),
                      Dot(self.c, rhs.b, self.d, rhs.d),
                      DotPlus(self.a, rhs.x, self.b, rhs.y, rhs.x),
                      DotPlus(self.c, rhs.x, self.d, rhs.y, rhs.y))

\* mul with a fault seeded: the operands are taken in the other order
mul_reversed(self, rhs) ==
    IF self = Panic \/ rhs = Panic THEN Panic
    ELSE IF overflow_checks /\ MulOverflows(rhs, self) THEN Panic
    ELSE AffineMatrix(Dot(rhs.a, self.a, rhs.b, self.c),
                      Dot(rhs.a, self.b, rhs.b, self.d),
                      Dot(rhs.c, self.a, rhs.d, self.c),
                      Dot(rhs.c, self.b, rhs.d, self.d),
                      DotPlus(rhs.a, self.x, rhs.b, self.y, rhs.x),
                      DotPlus(rhs.c, self.x, rhs.d, self.y, rhs.y))

mul(self, rhs) ==
    IF self = Panic \/ rhs = Panic THEN Panic
    ELSE IF overflow_checks /\ MulOverflows(self, rhs) THEN Panic
    ELSE AffineMatrix(Dot(self.a, rhs.a, self.b, rhs.c),
                      Dot(self.a, rhs.b, self.b, rhs.d),
                      Dot(self.c, rhs.a, self.d, rhs.c),
                      Dot(self.c, rhs.b, self.d, rhs.d),
                      DotPlus(self.a, rhs.x, self.b, rhs.y, self.x),
                      DotPlus(self.c, rhs.x, self.d, rhs.y, self.y))

\* applying a matrix to a point: (a*p.x + b*p.y + x, c*p.x + d*p.y + y)
apply(m, p) ==
    IF m = Panic \/ p = Panic THEN Panic
    ELSE IF overflow_checks /\ (\/ DotPlusOverflows(m.a, p.x, m.b, p.y, m.x)
                                \/ DotPlusOverflows(m.c, p.x, m.d, p.y, m.y))
    THEN Panic
    ELSE Vec(DotPlus(m.a, p.x, m.b, p.y, m.x), DotPlus(m.c, p.x, m.d, p.y, m.y))


\* whether a product or a sum of self * rhs left the i32 range
MulWraps(self, rhs) ==
    \/ self = Panic \/ rhs = Panic
    \/ MulOverflows(self, rhs)
    \/ \E l \in {self.a, self.b, self.c, self.d},
          r \in {rhs.a, rhs.b, rhs.c, rhs.d, rhs.x, rhs.y} :
          UpcastMultiplyTruncates(l, r)

\* whether a product or a sum of apply(m, p) left the i32 range
ApplyWraps(m, p) ==
    \/ m = Panic \/ p = Panic
    \/ DotPlusOverflows(m.a, p.x, m.b, p.y, m.x)
    \/ DotPlusOverflows(m.c, p.x, m.d, p.y, m.y)
    \/ \E l \in {m.a, m.b, m.c, m.d}, r \in {p.x, p.y} :
          UpcastMultiplyTruncates(l, r)

\* impl MulAssign: *self = *self * rhs
mul_assign(self, rhs) == mul(self, rhs)

-----------------------------------------------------------------------------
(* Inputs                                                                  *)

\* largest multiple of one half among the sampled coefficients
MaxHalves == 1

\* largest multiple of one half among the sampled scale factors
MaxScale == 2

\* angles are sampled at -MaxAngleSteps..MaxAngleSteps steps
MaxAngleSteps == 4

\* how far beyond the i16 limits the sampled coefficients reach
MaxDelta == 0

Half == One \div 2

\* coefficients for the identity law: halves, and both ends of the i32 range
FieldVals == {k * Half : k \in -MaxHalves..MaxHalves} \cup {I32Min, I32Max}

OffsetVecs == {Vec(0, 0), Vec(1, I32Min), Vec(I32Max, -77)}

FieldMatrices ==
    {AffineMatrix(a, b, c, d, v.x, v.y) :
        a \in FieldVals, b \in FieldVals, c \in FieldVals, d \in FieldVals,
        v \in OffsetVecs}

\* angles as <<raw, N>> of a Num<i32, N>: quarter steps at N = 2, eighth
\* steps at N = 8 and N = 16
Angles ==
    {<<k, 2>> : k \in -MaxAngleSteps..MaxAngleSteps}
    \cup {<<k * (One \div 8), 8>> : k \in -MaxAngleSteps..MaxAngleSteps}
    \cup {<<k * 2 ^ 13, 16>> : k \in -MaxAngleSteps..MaxAngleSteps}

ScaleVals == {1} \cup {k * Half : k \in 1..MaxScale}

ScaleVecs == {Vec(sx, sy) : sx \in ScaleVals, sy \in ScaleVals}

WideScaleVals == ScaleVals \cup {-One, I32Min, I32Max}

WideScaleVecs == {Vec(sx, sy) : sx \in WideScaleVals, sy \in WideScaleVals}

\* the last one is a whole number next to the end of the range
TranslationVecs ==
    {Vec(2 * One, 77), Vec(-One, 3 * One), Vec(I32Min + One, -(I32Min + One))}

PositionVals == {0, 20 * One, 10 * One, -77, I32Min, I32Max}

PositionVecs == {Vec(px, py) : px \in PositionVals, py \in PositionVals}

Points == {Vec(0, 0), Vec(2 * One, One), Vec(77, -3), Vec(-5 * One, 640),
           Vec(I32Max, One), Vec(One, I32Min)}

\* matrices without a translation, built by the public constructors
LinearMatrices ==
    {identity} \cup {from_rotation(t[1], t[2]) : t \in Angles}
               \cup {from_scale(s) : s \in ScaleVecs}

\* matrices built by the public constructors
Matrices == LinearMatrices \cup {from_translation(p) : p \in TranslationVecs}

\* coefficients around both limits of the i16 range
NarrowVals ==
    {0, I32Min, I32Max}
    \cup {I16Max + d : d \in 0..(MaxDelta + 1)}
    \cup {I16Min - d : d \in 0..(MaxDelta + 1)}
    \cup {I16Min + 1}

NarrowMatrices ==
    {AffineMatrix(a, b, c, d, v.x, v.y) :
        a \in NarrowVals, b \in NarrowVals, c \in NarrowVals, d \in NarrowVals,
        v \in {Vec(0, 0), Vec(I32Max, -77)}}

BridgeVals == {One, -3 * Half} \cup {I16Max + d : d \in 0..(MaxDelta + 1)}
                               \cup {I16Min - d : d \in 0..(MaxDelta + 1)}

BridgeVecs == {Vec(vx, vy) : vx \in BridgeVals, vy \in BridgeVals}

\* rotations as raw Num<i32, 16>
BridgeRotations == {0, 2 ^ 14, 2 ^ 15 + 300, 2 ^ 16 + 2 ^ 13, -1, I32Min, I32Max}

-----------------------------------------------------------------------------
(* Operations                                                              *)
(*                                                                         *)
(* The matrices are immutable values and every operation is a pure call:   *)
(* a behaviour is one call on freshly drawn inputs.                        *)

Init ==
    /\ overflow_checks \in BOOLEAN
    /\ op = "init"
    /\ args = <<>>
    /\ res = <<>>
    /\ swi = <<>>

\* M * identity() and identity() * M
MulIdentity ==
    /\ op = "init"
    /\ \E m \in FieldMatrices :
        /\ op' = "mul_identity"
        /\ args' = [m |-> m]
        /\ res' = [right |-> mul(m, identity), left |-> mul(identity, m)]
        /\ UNCHANGED <<overflow_checks, swi>>

\* (A * B) * C and A * (B * C)
MulAssoc ==
    /\ op = "init"
    /\ \E a \in Matrices, b \in Matrices, c \in Matrices :
        /\ op' = "mul_assoc"
        /\ args' = [a |-> a, b |-> b, c |-> c]
        /\ res' = [lhs |-> mul(mul(a, b), c), rhs |-> mul(a, mul(b, c)),
                   wrapped |-> \/ MulWraps(a, b) \/ MulWraps(mul(a, b), c)
                               \/ MulWraps(b, c) \/ MulWraps(a, mul(b, c))]
        /\ UNCHANGED <<overflow_checks, swi>>

\* A * B applied to a point, and B then A applied to it
MulApply ==
    /\ op = "init"
    /\ \E a \in Matrices, b \in Matrices, p \in Points :
        /\ op' = "mul_apply"
        /\ args' = [a |-> a, b |-> b, p |-> p]
        /\ res' = [composed   |-> apply(mul(a, b), p),
                   sequential |-> apply(a, apply(b, p)),
                   wrapped |-> \/ MulWraps(a, b) \/ ApplyWraps(mul(a, b), p)
                               \/ ApplyWraps(b, p)
                               \/ ApplyWraps(a, apply(b, p))]
        /\ UNCHANGED <<overflow_checks, swi>>

\* (from_translation(p) * B).position()
TranslateMul ==
    /\ op = "init"
    /\ \E p \in PositionVecs,
          b \in LinearMatrices \cup {from_scale(s) : s \in WideScaleVecs} :
        /\ op' = "translate_mul"
        /\ args' = [p |-> p, b |-> b]
        /\ res' = [position |-> position(mul(from_translation(p), b))]
        /\ UNCHANGED <<overflow_checks, swi>>

\* D = from_rotation(angle), then D * D
DoubleRotation ==
    /\ op = "init"
    /\ \E t \in Angles :
        /\ op' = "double_rotation"
        /\ args' = [angle |-> t[1], n |-> t[2]]
        /\ res' = [d  |-> from_rotation(t[1], t[2]),
                   dd |-> mul(from_rotation(t[1], t[2]),
                              from_rotation(t[1], t[2]))]
        /\ UNCHANGED <<overflow_checks, swi>>

\* from_rotation(angle) * from_scale(s) and from_scale(s) * from_rotation(angle)
MulCommute ==
    /\ op = "init"
    /\ \E t \in Angles, s \in WideScaleVecs :
        /\ op' = "mul_commute"
        /\ args' = [angle |-> t[1], n |-> t[2], scale |-> s]
        /\ res' = [ab |-> mul(from_rotation(t[1], t[2]), from_scale(s)),
                   ba |-> mul(from_scale(s), from_rotation(t[1], t[2]))]
        /\ UNCHANGED <<overflow_checks, swi>>

\* A *= B
MulAssign ==
    /\ op = "init"
    /\ \E a \in LinearMatrices, p \in TranslationVecs :
        /\ op' = "mul_assign"
        /\ args' = [a |-> a, b |-> from_translation(p)]
        /\ res' = [self |-> mul_assign(a, from_translation(p))]
        /\ UNCHANGED <<overflow_checks, swi>>

TryToBackground ==
    /\ op = "init"
    /\ \E m \in NarrowMatrices :
        /\ op' = "try_to_background"
        /\ args' = [m |-> m]
        /\ res' = [result  |-> try_to_background(m),
                   widened |-> IF try_to_background(m).tag = "Ok"
                               THEN background_to_affine_matrix(
                                        try_to_background(m).val)
                               ELSE <<>>]
        /\ UNCHANGED <<overflow_checks, swi>>

TryToObject ==
    /\ op = "init"
    /\ \E m \in NarrowMatrices :
        /\ op' = "try_to_object"
        /\ args' = [m |-> m]
        /\ res' = [result  |-> try_to_object(m),
                   widened |-> IF try_to_object(m).tag = "Ok"
                               THEN object_to_affine_matrix(try_to_object(m).val)
                               ELSE <<>>]
        /\ UNCHANGED <<overflow_checks, swi>>

ToBackgroundWrapping ==
    /\ op = "init"
    /\ \E m \in NarrowMatrices :
        /\ op' = "to_background_wrapping"
        /\ args' = [m |-> m]
        /\ res' = [result |-> to_background_wrapping(m)]
        /\ UNCHANGED <<overflow_checks, swi>>

ToObjectWrapping ==
    /\ op = "init"
    /\ \E m \in NarrowMatrices :
        /\ op' = "to_object_wrapping"
        /\ args' = [m |-> m]
        /\ res' = [result |-> to_object_wrapping(m)]
        /\ UNCHANGED <<overflow_checks, swi>>

FromScaleRotationPosition ==
    /\ op = "init"
    /\ \E o \in {Vec(0, 0), Vec(I32Max, -77)}, s \in BridgeVecs,
          r \in BridgeRotations, p \in BridgeVecs :
        /\ op' = "from_scale_rotation_position"
        /\ args' = [transform_origin |-> o, scale |-> s, rotation |-> r,
                    position |-> p]
        /\ res' = [result |-> from_scale_rotation_position(o, s, r, p)]
        /\ swi' = BridgeArguments(o, s, r, p)
        /\ UNCHANGED overflow_checks

NextAlgebra ==
    \/ MulIdentity
    \/ MulAssoc
    \/ MulApply
    \/ TranslateMul
    \/ DoubleRotation
    \/ MulCommute
    \/ MulAssign

NextNarrow ==
    \/ TryToBackground
    \/ TryToObject
    \/ ToBackgroundWrapping
    \/ ToObjectWrapping

NextBridge == FromScaleRotationPosition

Next == NextAlgebra \/ NextNarrow \/ NextBridge

\* composition and the constructors
SpecAlgebra == Init /\ [][NextAlgebra]_vars

\* narrowing to the hardware matrices and widening back
SpecNarrow == Init /\ [][NextNarrow]_vars

\* the bg_affine_matrix bridge
SpecBridge == Init /\ [][NextBridge]_vars

Spec == Init /\ [][Next]_vars


-----------------------------------------------------------------------------
(* Properties                                                              *)

Linear == {"a", "b", "c", "d"}

\* every field is a whole number
Whole(m) == \A f \in Linear \cup {"x", "y"} : m[f] % One = 0

WholeVec(p) == p.x % One = 0 /\ p.y % One = 0

AtLeastTwo(p, q, r) == (p /\ q) \/ (p /\ r) \/ (q /\ r)

\* C1: identity() is the two-sided neutral element of composition: for every
\* matrix M, M * identity() and identity() * M both equal M in all six fields.
IdentityIsNeutral ==
    op = "mul_identity" => res.right = args.m /\ res.left = args.m

IdentityIsNeutralWitness ==
    /\ op = "mul_identity"
    /\ overflow_checks
    /\ args.m.a = I32Min /\ args.m.b = Half /\ args.m.c = I32Max
    /\ args.m.x = I32Max /\ args.m.y = -77
    /\ res.right = args.m /\ res.left = args.m

\* C2 as claimed: (A * B) * C equals A * (B * C) for all matrices.
CompositionAssociative ==
    op = "mul_assoc" => res.lhs = res.rhs

\* C2 amended: when at least two of A, B, C hold only whole numbers and no
\* product or sum on either side leaves the i32 range, (A * B) * C and
\* A * (B * C) are the same matrix.
AssociativeWhenTwoAreWhole ==
    (/\ op = "mul_assoc"
     /\ AtLeastTwo(Whole(args.a), Whole(args.b), Whole(args.c))
     /\ ~res.wrapped)
    => (res.lhs # Panic /\ res.lhs = res.rhs)

AssociativeWhenTwoAreWholeWitness ==
    /\ op = "mul_assoc"
    /\ ~Whole(args.a) /\ Whole(args.b) /\ Whole(args.c)
    /\ args.a.x # 0 /\ args.b.b # 0 /\ args.c.x # 0
    /\ ~res.wrapped /\ res.lhs # Panic /\ res.lhs = res.rhs

\* C3 as claimed: applying A * B to a point equals applying B, then A.
ApplyOfProduct ==
    op = "mul_apply" => res.composed = res.sequential

\* C3 amended: when at least two of A, B and the point hold only whole
\* numbers and no product or sum on either side leaves the i32 range,
\* applying A * B to the point gives the same point as applying B, then A.
ApplyOfProductWhenTwoAreWhole ==
    (/\ op = "mul_apply"
     /\ AtLeastTwo(Whole(args.a), Whole(args.b), WholeVec(args.p))
     /\ ~res.wrapped)
    => (res.composed # Panic /\ res.composed = res.sequential)

ApplyOfProductWhenTwoAreWholeWitness ==
    /\ op = "mul_apply"
    /\ Whole(args.a) /\ ~Whole(args.b) /\ WholeVec(args.p)
    /\ args.a.x # 0 /\ args.b.a # One /\ args.p.x # 0
    /\ ~res.wrapped /\ res.composed # Panic /\ res.composed = res.sequential

\* magnitude strictly less than 128
Below128(v) == -(128 * One) < v /\ v < 128 * One

\* C4: when a, b, c, d all have magnitude below 128, try_to_background
\* returns Ok and widening it gives back all six fields; try_to_object returns
\* Ok and widening it gives back a, b, c, d with x = y = 0.
NarrowingRoundTrip ==
    /\ (op = "try_to_background" /\ \A f \in Linear : Below128(args.m[f]))
       => (res.result.tag = "Ok" /\ res.widened = args.m)
    /\ (op = "try_to_object" /\ \A f \in Linear : Below128(args.m[f]))
       => (res.result.tag = "Ok"
           /\ res.widened = [args.m EXCEPT !.x = 0, !.y = 0])

NarrowingRoundTripWitness ==
    /\ op = "try_to_background"
    /\ args.m.a = I16Min + 1 /\ args.m.d = I16Max
    /\ args.m.x = I32Max /\ args.m.y = -77
    /\ res.result.tag = "Ok" /\ res.widened = args.m

\* C5 as claimed: when one of a, b, c, d has magnitude at or above 128, both
\* fallible narrowings return Err(OverflowError).
OverflowAtOrAbove128 ==
    (/\ op \in {"try_to_background", "try_to_object"}
     /\ \E f \in Linear : ~Below128(args.m[f]))
    => res.result = Err(OverflowError)

\* C5 amended: when one of a, b, c, d is at or above 128 or below -128 (its
\* raw value outside the i16 range), both fallible narrowings return
\* Err(OverflowError), whatever the other fields are.
OverflowOutsideNarrowRange ==
    (/\ op \in {"try_to_background", "try_to_object"}
     /\ \E f \in Linear : args.m[f] >= 128 * One \/ args.m[f] < -(128 * One))
    => res.result = Err(OverflowError)

OverflowOutsideNarrowRangeWitness ==
    /\ op = "try_to_object"
    /\ args.m.a = 0 /\ args.m.b = I16Min /\ args.m.c = I16Max
    /\ args.m.d = I16Min - 1
    /\ res.result = Err(OverflowError)

\* the low 16 bits of a raw value read as a signed 16-bit integer
Signed16(raw) == (((raw % (2 ^ 16)) + 2 ^ 15) % (2 ^ 16)) - 2 ^ 15

\* C6: the wrapping narrowings always return a matrix whose a, b, c, d are
\* the low 16 bits of the 32-bit raw values read as signed 16-bit integers;
\* to_background_wrapping copies x and y.
WrappingIsTruncation ==
    /\ op = "to_background_wrapping" =>
         /\ res.result.ty = "AffineMatrixBackground"
         /\ \A f \in Linear : res.result[f] = Signed16(args.m[f])
         /\ res.result.x = args.m.x /\ res.result.y = args.m.y
    /\ op = "to_object_wrapping" =>
         /\ res.result.ty = "AffineMatrixObject"
         /\ \A f \in Linear : res.result[f] = Signed16(args.m[f])

WrappingIsTruncationWitness ==
    /\ op = "to_background_wrapping"
    /\ args.m.a = I16Max + 1 /\ res.result.a = I16Min
    /\ args.m.b = I32Max /\ res.result.b = -1
    /\ args.m.c = I16Min - 1 /\ res.result.c = I16Max
    /\ args.m.x = I32Max /\ res.result.x = I32Max

\* C7 as claimed: for every position p and translation-free B,
\* (from_translation(p) * B).position() equals p.
TranslationSurvives ==
    (op = "translate_mul" /\ args.b.x = 0 /\ args.b.y = 0)
    => res.position = args.p

\* C7 amended: for every position p whose components are not the most
\* negative Num<i32, 8> and every translation-free B,
\* (from_translation(p) * B).position() equals p.
TranslationSurvivesUnlessMin ==
    (/\ op = "translate_mul" /\ args.b.x = 0 /\ args.b.y = 0
     /\ args.p.x # I32Min /\ args.p.y # I32Min)
    => res.position = args.p

TranslationSurvivesUnlessMinWitness ==
    /\ op = "translate_mul"
    /\ args.p = Vec(20 * One, 10 * One)
    /\ args.b = from_rotation(2, 2)
    /\ args.b.a = -One
    /\ res.position = Vec(20 * One, 10 * One)

\* C8: with D = from_rotation of exactly one half turn, D * D equals
\* identity() in all six fields.
DoubleHalfTurnIsIdentity ==
    (op = "double_rotation" /\ 2 * args.angle = 2 ^ args.n)
    => res.dd = identity

DoubleHalfTurnIsIdentityWitness ==
    /\ op = "double_rotation"
    /\ args.angle = 2 /\ args.n = 2
    /\ res.d = AffineMatrix(-One, 0, 0, -One, 0, 0)
    /\ res.dd = identity

\* C9: composition is not commutative: with A = from_rotation of a quarter
\* turn and B = from_scale with scale.x # scale.y, both products are matrices
\* and A * B differs from B * A.
RotationAndScaleDoNotCommute ==
    (/\ op = "mul_commute"
     /\ 4 * args.angle = 2 ^ args.n
     /\ args.scale.x # args.scale.y)
    => (res.ab # Panic /\ res.ba # Panic /\ res.ab # res.ba)

RotationAndScaleDoNotCommuteWitness ==
    /\ op = "mul_commute"
    /\ args.angle = 1 /\ args.n = 2
    /\ args.scale = Vec(One, Half)
    /\ res.ab = AffineMatrix(0, -Half, One, 0, 0, 0)
    /\ res.ba = AffineMatrix(0, -One, Half, 0, 0, 0)

\* representable as a signed 16-bit value with 8 fractional bits
Narrowable(v) == v \in I16Min..I16Max

\* C10: from_scale_rotation_position panics, without calling the external
\* routine and without an OverflowError, when a component of position or of
\* scale is not representable in 16 bits; otherwise it does not panic and
\* returns what the routine yields for the unchanged origin, the floored
\* narrowed position, the narrowed scale and the rotation reduced modulo one
\* turn.
BridgeFailsFatally ==
    op = "from_scale_rotation_position" =>
        IF /\ Narrowable(args.position.x) /\ Narrowable(args.position.y)
           /\ Narrowable(args.scale.x) /\ Narrowable(args.scale.y)
        THEN LET expected ==
                   <<args.transform_origin,
                     Vec(args.position.x \div One, args.position.y \div One),
                     args.scale,
                     (args.rotation % 2 ^ 16) \div One>>
             IN /\ res.result # Panic
                /\ swi = <<expected>>
                /\ res.result = bg_affine_matrix(expected[1], expected[2],
                                                 expected[3], expected[4])
        ELSE /\ res.result = Panic
             /\ res.result # Err(OverflowError)
             /\ swi = <<>>

BridgeFailsFatallyWitness ==
    /\ op = "from_scale_rotation_position"
    /\ args.position = Vec(One, -3 * Half)
    /\ args.scale = Vec(One, I16Max + 1)
    /\ res.result = Panic
    /\ swi = <<>>

=============================================================================
